---- MODULE Spec2Model ----
(***************************************************************************)
(* A model of reaper-save-rs: the generic document tree (low_level.rs),    *)
(* its parser and serializer, and the typed views over it (high_level.rs). *)
(*                                                                         *)
(* Text is a sequence of characters; a character is a one-letter string.   *)
(* Option<T> is a sequence of length at most one, Result<T, E> a record    *)
(* with the field ok.  Vec indices are 0-based as in the source.           *)
(***************************************************************************)
EXTENDS Integers, Sequences, FiniteSets, TLC

VARIABLES project, last,
          slot, swapped, wpc, wty, original, converted, valid, closure, steps, outcome,
          text, parsed, output, reparsed, ppc,
          subject, access

vars == <<project, last,
          slot, swapped, wpc, wty, original, converted, valid, closure, steps, outcome,
          text, parsed, output, reparsed, ppc,
          subject, access>>

trackVars == <<project, last>>
wrapVars == <<slot, swapped, wpc, wty, original, converted, valid, closure, steps, outcome>>
parseVars == <<text, parsed, output, reparsed, ppc>>
viewVars == <<subject, access>>

(***************************************************************************)
(* Bounds of the model.                                                    *)
(***************************************************************************)
\* The longest child sequence an object of the model holds.
MaxChildren == 3

(***************************************************************************)
(* Option and Result.                                                      *)
(***************************************************************************)
None == <<>>

Some(x) == <<x>>

Ok(v) == [ok |-> TRUE, val |-> v]

Err(e) == [ok |-> FALSE, err |-> e]

Unit == "()"

(***************************************************************************)
(* The document tree (low_level.rs).                                       *)
(***************************************************************************)
NewLine(attribute, values) == [attribute |-> attribute, values |-> values]

NewObject(header, values) == [header |-> header, values |-> values]

EntryObject(o) == [tag |-> "Object", object |-> o]

EntryLine(l) == [tag |-> "Line", line |-> l]

EntryAnonymousParameter(p) == [tag |-> "AnonymousParameter", param |-> p]

\* Entry::as_object (enum_as_inner)
as_object(e) == IF e.tag = "Object" THEN Some(e.object) ELSE None

\* Entry::as_line (enum_as_inner)
as_line(e) == IF e.tag = "Line" THEN Some(e.line) ELSE None

StringUnquoted(s) == [kind |-> "String", quote |-> "Unquoted", s |-> s]

StringDoubleQuote(s) == [kind |-> "String", quote |-> "DoubleQuote", s |-> s]

StringSingleQuote(s) == [kind |-> "String", quote |-> "SingleQuote", s |-> s]

(***************************************************************************)
(* Characters and the nom combinators the grammar is written with.  A      *)
(* parser returns [ok |-> TRUE, rest, val] or [ok |-> FALSE]; the error    *)
(* tree of a failure is not modelled, from_str turns any into ParseError.  *)
(***************************************************************************)
CR == "\r"

LF == "\n"

TAB == "\t"

Digit == {"0", "1", "2", "3", "4", "5", "6", "7", "8", "9"}

Upper == {"A", "B", "C", "D", "E", "F", "G", "H", "I", "J", "K", "L", "M",
          "N", "O", "P", "Q", "R", "S", "T", "U", "V", "W", "X", "Y", "Z"}

Lower == {"a", "b", "c", "d", "e", "f", "g", "h", "i", "j", "k", "l", "m",
          "n", "o", "p", "q", "r", "s", "t", "u", "v", "w", "x", "y", "z"}

\* char::is_whitespace, on the characters of the model
is_whitespace(c) == c \in {" ", CR, LF, TAB}

\* char::is_ascii_hexdigit
is_ascii_hexdigit(c) ==
    c \in Digit \union {"a", "b", "c", "d", "e", "f", "A", "B", "C", "D", "E", "F"}

\* char::is_numeric, on the characters of the model
is_numeric(c) == c \in Digit

\* char::is_alphanumeric, on the characters of the model
is_alphanumeric(c) == c \in Digit \union Upper \union Lower

BASE64_CHARACTERS == Digit \union Upper \union Lower \union {"+", "/", "="}

INDENT_SPACES == 2

Parsed(rest, val) == [ok |-> TRUE, rest |-> rest, val |-> val]

Failed == [ok |-> FALSE]

\* The input without its first n characters.
Drop(input, n) == SubSeq(input, n + 1, Len(input))

\* The least element of a set of integers.
Min(S) == CHOOSE x \in S : \A y \in S : x <= y

\* F applied to a value that is computed once: let x = ..; F(x)
With(x, F(_)) == F(x)

\* F applied to the result of a parser that succeeded, its failure otherwise.
AndThen(r, F(_)) == IF r.ok THEN F(r) ELSE Failed

\* nom alt / or: the first parser's result when it succeeded, else the second's.
OrElse(r, s) == IF r.ok THEN r ELSE s

\* The first n characters taken, the others left.
SplitAt(input, n) == Parsed(Drop(input, n), SubSeq(input, 1, n))

\* The length of the longest prefix of input whose characters all satisfy P.
PrefixLen(input, P(_)) ==
    Min({i - 1 : i \in {j \in 1..Len(input) : ~P(input[j])}} \union {Len(input)})

\* nom take_while: never fails, may take nothing.
take_while(input, P(_)) == SplitAt(input, PrefixLen(input, P))

\* nom take_while1: fails when it would take nothing.
take_while1(input, P(_)) ==
    With(PrefixLen(input, P), LAMBDA n : IF n = 0 THEN Failed ELSE SplitAt(input, n))

\* nom take_while_m_n(m, n, ..): takes at most n characters, fails under m.
take_while_m_n(input, m, n, P(_)) ==
    With(PrefixLen(input, P), LAMBDA found :
        IF found < m THEN Failed ELSE SplitAt(input, IF found > n THEN n ELSE found))

\* nom_supreme tag
tag(input, t) ==
    IF Len(input) >= Len(t) /\ SubSeq(input, 1, Len(t)) = t
    THEN Parsed(Drop(input, Len(t)), t)
    ELSE Failed

parse_space(input) == take_while_m_n(input, 1, 1, LAMBDA c : c = " ")

\* A faulty variant of parse_indents: at least the expected spaces, and all of them.
parse_indents_at_least(input, indents) ==
    LET spaces == indents * INDENT_SPACES
    IN  take_while_m_n(input, spaces, Len(input), LAMBDA c : c = " ")

parse_indents(input, indents) ==
    LET spaces == indents * INDENT_SPACES
    IN  take_while_m_n(input, spaces, spaces, LAMBDA c : c = " ")

\* tag("\r\n").or(tag("\n"))
parse_newline(input) == OrElse(tag(input, <<CR, LF>>), tag(input, <<LF>>))

(***************************************************************************)
(* Numbers: str::parse::<i64>, str::parse::<f64> and their Display.  A     *)
(* finite f64 is kept as the decimal mant * 10^(-scale), without trailing  *)
(* zeros in mant: parse then Display of a decimal of at most 15            *)
(* significant digits gives back that decimal.  The digit runs of the      *)
(* model are short, so neither parse overflows.                            *)
(***************************************************************************)
DigitValue(c) ==
    CASE c = "0" -> 0 [] c = "1" -> 1 [] c = "2" -> 2 [] c = "3" -> 3 [] c = "4" -> 4
      [] c = "5" -> 5 [] c = "6" -> 6 [] c = "7" -> 7 [] c = "8" -> 8 [] c = "9" -> 9

DigitChar(d) == <<"0", "1", "2", "3", "4", "5", "6", "7", "8", "9">>[d + 1]

RECURSIVE DigitsValue(_)
DigitsValue(ds) ==
    IF ds = <<>> THEN 0
    ELSE 10 * DigitsValue(SubSeq(ds, 1, Len(ds) - 1)) + DigitValue(ds[Len(ds)])

RECURSIVE NatDigits(_)
\* The decimal digits of a natural number.
NatDigits(n) == IF n < 10 THEN <<DigitChar(n)>> ELSE Append(NatDigits(n \div 10), DigitChar(n % 10))

AllDigits(ds) == \A i \in 1..Len(ds) : ds[i] \in Digit

HasSign(tok) == tok # <<>> /\ tok[1] \in {"+", "-"}

\* The token without its sign.
Unsigned(tok) == IF HasSign(tok) THEN Tail(tok) ELSE tok

\* str::parse::<i64>: an optional sign and at least one digit.
ParseI64(tok) ==
    With(Unsigned(tok), LAMBDA ds :
        IF ds = <<>> \/ ~AllDigits(ds) THEN Failed
        ELSE Parsed(<<>>, IF tok[1] = "-" THEN 0 - DigitsValue(ds) ELSE DigitsValue(ds)))

\* <i64 as Display>::fmt
DisplayI64(v) == IF v < 0 THEN <<"-">> \o NatDigits(0 - v) ELSE NatDigits(v)

LowerOf(c) ==
    CASE c = "I" -> "i" [] c = "N" -> "n" [] c = "F" -> "f" [] c = "T" -> "t"
      [] c = "Y" -> "y" [] c = "A" -> "a" [] OTHER -> c

ToLower(tok) == [i \in 1..Len(tok) |-> LowerOf(tok[i])]

FloatFinite(neg, mant, scale) ==
    [kind |-> "Float", class |-> "finite", neg |-> neg, mant |-> mant, scale |-> scale]

FloatInfinite(neg) ==
    [kind |-> "Float", class |-> "inf", neg |-> neg, mant |-> 0, scale |-> 0]

\* Every NaN is the same value to OrderedFloat.
FloatNaN == [kind |-> "Float", class |-> "nan", neg |-> FALSE, mant |-> 0, scale |-> 0]

RECURSIVE Normalized(_, _, _)
\* The same number without trailing zeros in mant.
Normalized(neg, mant, scale) ==
    IF mant = 0 THEN FloatFinite(neg, 0, 0)
    ELSE IF mant % 10 = 0 THEN Normalized(neg, mant \div 10, scale - 1)
    ELSE FloatFinite(neg, mant, scale)

\* The digits before and after the point of a decimal, an exponent not yet applied.
Decimal(neg, int, frac, rest) == [neg |-> neg, int |-> int, frac |-> frac, rest |-> rest]

\* The decimal a token starts with: sign, digits, and digits after a point.
ParseDecimal(tok) ==
    With(take_while(Unsigned(tok), LAMBDA c : c \in Digit), LAMBDA int :
        With(IF int.rest # <<>> /\ int.rest[1] = "."
             THEN take_while(Tail(int.rest), LAMBDA c : c \in Digit)
             ELSE Parsed(int.rest, <<>>),
             LAMBDA frac :
                 Decimal(tok # <<>> /\ tok[1] = "-", int.val, frac.val, frac.rest)))

\* str::parse::<f64> (core::num::dec2flt): an optional sign, then inf, infinity or
\* nan in any case, or digits with an optional point and an optional exponent, with
\* at least one digit before the exponent.
ParseF64(tok) ==
    With(ParseDecimal(tok), LAMBDA d :
        IF ToLower(Unsigned(tok))
               \in {<<"i", "n", "f">>, <<"i", "n", "f", "i", "n", "i", "t", "y">>}
        THEN Parsed(<<>>, FloatInfinite(d.neg))
        ELSE IF ToLower(Unsigned(tok)) = <<"n", "a", "n">> THEN Parsed(<<>>, FloatNaN)
        ELSE IF Len(d.int) + Len(d.frac) = 0 THEN Failed
        ELSE IF d.rest # <<>> /\ d.rest[1] \in {"e", "E"}
        THEN AndThen(ParseI64(Tail(d.rest)), LAMBDA exponent :
                 Parsed(<<>>, Normalized(d.neg, DigitsValue(d.int \o d.frac),
                                         Len(d.frac) - exponent.val)))
        ELSE IF d.rest # <<>> THEN Failed
        ELSE Parsed(<<>>, Normalized(d.neg, DigitsValue(d.int \o d.frac), Len(d.frac))))

Zeros(n) == [i \in 1..n |-> "0"]

\* The digits of mant with zeros in front, so that a digit stands before the point.
Padded(ds, scale) == IF Len(ds) > scale THEN ds ELSE Zeros(scale + 1 - Len(ds)) \o ds

\* The digits with a point before the last scale of them.
Pointed(ds, scale) ==
    SubSeq(ds, 1, Len(ds) - scale) \o <<".">> \o SubSeq(ds, Len(ds) - scale + 1, Len(ds))

\* <f64 as Display>::fmt: never an exponent, no trailing zeros, "-0" for -0.0.
DisplayF64(v) ==
    CASE v.class = "nan" -> <<"N", "a", "N">>
      [] v.class = "inf" -> (IF v.neg THEN <<"-">> ELSE <<>>) \o <<"i", "n", "f">>
      [] v.class = "finite" /\ v.scale <= 0 ->
             (IF v.neg THEN <<"-">> ELSE <<>>) \o NatDigits(v.mant) \o Zeros(0 - v.scale)
      [] OTHER -> (IF v.neg THEN <<"-">> ELSE <<>>)
                      \o Pointed(Padded(NatDigits(v.mant), v.scale), v.scale)

(***************************************************************************)
(* The scalar grammar: Attribute::deserialize and Attribute::serialize.    *)
(***************************************************************************)
AttributeUid(s) == [kind |-> "ReaperUid", s |-> s]

AttributeInt(v) == [kind |-> "Int", v |-> v]

AttributeUNumber(v) == [kind |-> "UNumber", v |-> v]

\* The value of a successful parse replaced by F of it.
MapParsed(r, F(_)) == IF r.ok THEN Parsed(r.rest, F(r.val)) ELSE r

\* delimited(tag("{"), take_while(hex digit or '-'), tag("}"))
ReaperUid_deserialize(input) ==
    AndThen(tag(input, <<"{">>), LAMBDA open :
        With(take_while(open.rest, LAMBDA c : is_ascii_hexdigit(c) \/ c = "-"), LAMBDA body :
            AndThen(tag(body.rest, <<"}">>), LAMBDA close :
                Parsed(close.rest, AttributeUid(body.val)))))

\* delimited(tag(quote), take_while(|c| c != quote), tag(quote))
Quoted(input, quote) ==
    AndThen(tag(input, <<quote>>), LAMBDA open :
        With(take_while(open.rest, LAMBDA c : c # quote), LAMBDA body :
            AndThen(tag(body.rest, <<quote>>), LAMBDA close :
                Parsed(close.rest, body.val))))

\* ReaperString::deserialize: alt((double quoted, single quoted))
ReaperString_deserialize(input) ==
    OrElse(MapParsed(Quoted(input, "\""), StringDoubleQuote),
           MapParsed(Quoted(input, "'"), StringSingleQuote))

\* take_while(|v| !v.is_whitespace()).map_res(|v| v.parse::<i64>().map(Int))
parse_int(input) ==
    With(take_while(input, LAMBDA c : ~is_whitespace(c)), LAMBDA token :
        AndThen(ParseI64(token.val), LAMBDA number :
            Parsed(token.rest, AttributeInt(number.val))))

\* take_while(|v| !v.is_whitespace()).map_res(|v| v.parse::<f64>())
parse_float(input) ==
    With(take_while(input, LAMBDA c : ~is_whitespace(c)), LAMBDA token :
        AndThen(ParseF64(token.val), LAMBDA number : Parsed(token.rest, number.val)))

\* take_while(|v| v == '-' || v.is_numeric()).terminated(tag(":U")).map_res(parse::<i64>)
parse_u_number(input) ==
    With(take_while(input, LAMBDA c : c = "-" \/ is_numeric(c)), LAMBDA token :
        AndThen(tag(token.rest, <<":", "U">>), LAMBDA suffix :
            AndThen(ParseI64(token.val), LAMBDA number :
                Parsed(suffix.rest, AttributeUNumber(number.val)))))

\* take_while(|c| !c.is_whitespace()): never fails
parse_unescaped_string(input) ==
    MapParsed(take_while(input, LAMBDA c : ~is_whitespace(c)), StringUnquoted)

\* A faulty variant of Attribute_deserialize: the catch-all is tried before the
\* numbers.
Attribute_deserialize_string_first(input) ==
    OrElse(ReaperUid_deserialize(input),
    OrElse(ReaperString_deserialize(input),
           parse_unescaped_string(input)))

\* Attribute::deserialize: alt((uid, string, int, float, u-number, unquoted string))
Attribute_deserialize(input) ==
    OrElse(ReaperUid_deserialize(input),
    OrElse(ReaperString_deserialize(input),
    OrElse(parse_int(input),
    OrElse(parse_float(input),
    OrElse(parse_u_number(input),
           parse_unescaped_string(input))))))

\* A faulty variant of ReaperString::serialize: the content without its quote
\* characters.
ReaperString_serialize_bare(v) ==
    v.s

\* ReaperString::serialize
ReaperString_serialize(v) ==
    CASE v.quote = "SingleQuote" -> <<"'">> \o v.s \o <<"'">>
      [] v.quote = "DoubleQuote" -> <<"\"">> \o v.s \o <<"\"">>
      [] v.quote = "Unquoted" -> v.s

\* Attribute::serialize
Attribute_serialize(v) ==
    CASE v.kind = "ReaperUid" -> <<"{">> \o v.s \o <<"}">>
      [] v.kind = "String" -> ReaperString_serialize(v)
      [] v.kind = "Float" -> DisplayF64(v)
      [] v.kind = "Int" -> DisplayI64(v.v)
      [] v.kind = "UNumber" -> DisplayI64(v.v) \o <<":", "U">>

(***************************************************************************)
(* The parser: Line, AnonymousParameter, Object and Entry.                 *)
(***************************************************************************)
ParseError == [error |-> "ParseError"]

\* take_while1(|c| (c.is_alphabetic() && c.is_uppercase()) || c.is_numeric() || c == '_')
AttributeName_deserialize(input) ==
    take_while1(input, LAMBDA c : c \in Upper \/ is_numeric(c) \/ c = "_")

RECURSIVE separated_list_more(_, _)
\* The loop of nom's separated_list1(parse_space, Attribute::deserialize) after the
\* first element: it ends, with what it has, where no separator and element follow.
separated_list_more(input, acc) ==
    OrElse(AndThen(parse_space(input), LAMBDA sep :
               AndThen(Attribute_deserialize(sep.rest), LAMBDA element :
                   separated_list_more(element.rest, Append(acc, element.val)))),
           Parsed(input, acc))

\* opt(separated_list1(parse_space, Attribute::deserialize).preceded_by(parse_space))
\*   followed by values.unwrap_or_default()
Line_values(input) ==
    OrElse(AndThen(parse_space(input), LAMBDA space :
               AndThen(Attribute_deserialize(space.rest), LAMBDA first :
                   separated_list_more(first.rest, <<first.val>>))),
           Parsed(input, <<>>))

\* Line::deserialize
Line_deserialize(input, indent) ==
    AndThen(parse_indents(input, indent), LAMBDA indents :
        AndThen(AttributeName_deserialize(indents.rest), LAMBDA attribute :
            With(Line_values(attribute.rest), LAMBDA values :
                Parsed(values.rest, NewLine(attribute.val, values.val)))))

\* AnonymousParameter::deserialize
AnonymousParameter_deserialize(input, indent) ==
    AndThen(parse_indents(input, indent), LAMBDA indents :
        take_while1(indents.rest, LAMBDA c : is_alphanumeric(c) \/ c \in BASE64_CHARACTERS))

\* A parser followed by parse_newline: .terminated(parse_newline)
TerminatedByNewline(r) ==
    AndThen(r, LAMBDA value :
        AndThen(parse_newline(value.rest), LAMBDA newline :
            Parsed(newline.rest, value.val)))

RECURSIVE Object_deserialize(_, _)
RECURSIVE Entry_deserialize(_, _)
RECURSIVE many0_entries(_, _, _)

\* Object::deserialize: delimited(object_initializer, object_body, object_finalizer)
Object_deserialize(input, indent) ==
    AndThen(parse_indents(input, indent), LAMBDA indents :
    AndThen(tag(indents.rest, <<"<">>), LAMBDA initializer :
    AndThen(TerminatedByNewline(Line_deserialize(initializer.rest, 0)), LAMBDA header :
    With(many0_entries(header.rest, indent + 1, <<>>), LAMBDA entries :
    AndThen(parse_indents(entries.rest, indent), LAMBDA closing :
    AndThen(tag(closing.rest, <<">">>), LAMBDA finalizer :
        Parsed(finalizer.rest, NewObject(header.val, entries.val))))))))

\* Entry::deserialize: alt((object, line, anonymous parameter)), each terminated by
\* a newline
Entry_deserialize(input, indent) ==
    OrElse(MapParsed(TerminatedByNewline(Object_deserialize(input, indent)), EntryObject),
    OrElse(MapParsed(TerminatedByNewline(Line_deserialize(input, indent)), EntryLine),
           MapParsed(TerminatedByNewline(AnonymousParameter_deserialize(input, indent)),
                     EntryAnonymousParameter)))

\* nom's many0(entry_line): it ends, with what it has, at the first entry that
\* fails; an entry always consumes its newline, so the loop advances.
many0_entries(input, indent, acc) ==
    With(Entry_deserialize(input, indent), LAMBDA entry :
        IF entry.ok THEN many0_entries(entry.rest, indent, Append(acc, entry.val))
        ELSE Parsed(input, acc))

\* A faulty variant of from_str: the whole input has to be the object.
from_str_complete(input) ==
    With(Object_deserialize(input, 0), LAMBDA object :
        IF object.ok /\ object.rest = <<>> THEN Ok(object.val) ELSE Err(ParseError))

\* from_str: the remaining input is dropped.
from_str(input) ==
    With(Object_deserialize(input, 0), LAMBDA object :
        IF object.ok THEN Ok(object.val) ELSE Err(ParseError))

(***************************************************************************)
(* The serializer.                                                         *)
(***************************************************************************)
\* to_indent
to_indent(indent) == [i \in 1..(INDENT_SPACES * indent) |-> " "]

RECURSIVE Join(_, _)
\* segments.join(sep)
Join(segments, sep) ==
    IF segments = <<>> THEN <<>>
    ELSE IF Len(segments) = 1 THEN segments[1]
    ELSE segments[1] \o sep \o Join(Tail(segments), sep)

\* Line::serialize
Line_serialize(line, indent) ==
    to_indent(indent)
        \o Join(<<line.attribute>> \o [i \in 1..Len(line.values) |->
                                          Attribute_serialize(line.values[i])],
                <<" ">>)

\* AnonymousParameter::serialize
AnonymousParameter_serialize(param, indent) == to_indent(indent) \o param

\* What writeln!(out) appends to a String.
WRITELN == <<LF>>

RECURSIVE Object_serialize(_, _)
RECURSIVE Entry_serialize(_, _)
RECURSIVE Entries_serialize(_, _)

\* Object::serialize
Object_serialize(object, indent) ==
    to_indent(indent) \o <<"<">> \o Line_serialize(object.header, 0) \o WRITELN
        \o Entries_serialize(object.values, indent + 1)
        \o to_indent(indent) \o <<">">>

\* Entry::serialize
Entry_serialize(entry, indent) ==
    CASE entry.tag = "Object" -> Object_serialize(entry.object, indent)
      [] entry.tag = "Line" -> Line_serialize(entry.line, indent)
      [] entry.tag = "AnonymousParameter" -> AnonymousParameter_serialize(entry.param, indent)

\* for entry in self.values.iter() { entry.serialize(out, indent + 1)?; writeln!(out)?; }
Entries_serialize(entries, indent) ==
    IF entries = <<>> THEN <<>>
    ELSE Entry_serialize(Head(entries), indent) \o WRITELN
             \o Entries_serialize(Tail(entries), indent)

\* to_string: serialize_inline and a final "\r\n"; writing to a String cannot fail.
to_string(save_file) == Ok(Object_serialize(save_file, 0) \o <<CR, LF>>)

(***************************************************************************)
(* The typed views (high_level.rs).                                        *)
(***************************************************************************)
ViewTypes == {"ReaperProject", "Track", "Item", "SourceWave"}

REAPER_PROJECT == <<"R", "E", "A", "P", "E", "R", "_", "P", "R", "O", "J", "E", "C", "T">>

TRACK == <<"T", "R", "A", "C", "K">>

ITEM == <<"I", "T", "E", "M">>

SOURCE == <<"S", "O", "U", "R", "C", "E">>

DUMMY == <<"D", "U", "M", "M", "Y">>

\* ObjectWrapper::ATTRIBUTE_NAME of each implementation
ATTRIBUTE_NAME(ty) ==
    CASE ty = "ReaperProject" -> REAPER_PROJECT
      [] ty = "Track" -> TRACK
      [] ty = "Item" -> ITEM
      [] ty = "SourceWave" -> SOURCE

DUMMY_OBJECT == NewObject(NewLine(DUMMY, <<>>), <<>>)

InvalidObject(expected, got) == [error |-> "InvalidObject", expected |-> expected, got |-> got]

EmptyProject == [error |-> "EmptyProject"]

\* A faulty variant of matches_attribute_name_ref: the tag is only looked for at
\* the start of the name.
matches_attribute_name_prefix(object, attribute_name) ==
    /\ Len(object.header.attribute) >= Len(attribute_name)
    /\ SubSeq(object.header.attribute, 1, Len(attribute_name)) = attribute_name

matches_attribute_name_ref(object, attribute_name) ==
    object.header.attribute = attribute_name

\* A faulty variant of assert_attribute_name: the two names of the error are swapped.
assert_attribute_name_swapped(object, attribute_name) ==
    IF matches_attribute_name_ref(object, attribute_name)
    THEN Ok(object)
    ELSE Err(InvalidObject(object.header.attribute, attribute_name))

assert_attribute_name(object, attribute_name) ==
    IF matches_attribute_name_ref(object, attribute_name)
    THEN Ok(object)
    ELSE Err(InvalidObject(attribute_name, object.header.attribute))

\* A faulty variant of from_object_raw: the view keeps the header only.
from_object_raw_shallow(ty, inner) == [ty |-> ty, inner |-> NewObject(inner.header, <<>>)]

\* A view is the struct { inner }; ty is its (static) Rust type.
from_object_raw(ty, inner) == [ty |-> ty, inner |-> inner]

destroy(view) == view.inner

from_object(ty, inner) ==
    LET checked == assert_attribute_name(inner, ATTRIBUTE_NAME(ty))
    IN  IF checked.ok THEN Ok(from_object_raw(ty, checked.val)) ELSE checked

matches_object(ty, inner) == matches_attribute_name_ref(inner, ATTRIBUTE_NAME(ty))

(***************************************************************************)
(* ReaperProject::tracks and ReaperProject::modify_tracks.                 *)
(***************************************************************************)
Map(s, F(_)) == [i \in 1..Len(s) |-> F(s[i])]

RECURSIVE Reverse(_)
Reverse(s) == IF s = <<>> THEN <<>> ELSE Append(Reverse(Tail(s)), Head(s))

\* A faulty variant of tracks: every object child is taken for a track.
tracks_of_all_objects(self) ==
    Map(SelectSeq(self.inner.values, LAMBDA e : as_object(e) # None),
        LAMBDA e : from_object_raw("Track", as_object(e)[1]))

\* filter_map(|e| e.as_object()).cloned().filter_map(|o| Track::from_object(o).ok())
tracks(self) ==
    LET objects == Map(SelectSeq(self.inner.values, LAMBDA e : as_object(e) # None),
                       LAMBDA e : as_object(e)[1])
        views == Map(objects, LAMBDA o : from_object("Track", o))
    IN  Map(SelectSeq(views, LAMBDA r : r.ok), LAMBDA r : r.val)

\* A faulty variant of original_index_start: an empty child list anchors at 0.
original_index_start_or_zero(values) ==
    LET objects == {i \in 1..Len(values) : as_object(values[i]) # None}
    IN  IF objects # {} THEN Ok(Min(objects) - 1)
        ELSE IF Len(values) > 0 THEN Ok(Len(values) - 1)
        ELSE Ok(0)

\* find_map(|(index, entry)| entry.as_object().map(|_| index))
\*   .or_else(|| value_index().last().map(|(index, _)| index))
\*   .ok_or(error::Error::EmptyProject)
original_index_start(values) ==
    LET objects == {i \in 1..Len(values) : as_object(values[i]) # None}
    IN  IF objects # {} THEN Ok(Min(objects) - 1)
        ELSE IF Len(values) > 0 THEN Ok(Len(values) - 1)
        ELSE Err(EmptyProject)

\* The predicate of extract_if: the entry is an object that converts to a Track.
is_track_entry(val) ==
    /\ as_object(val) # None
    /\ from_object("Track", as_object(val)[1]).ok

\* A faulty variant of popped_tracks: the extracted tracks come out last first.
popped_tracks_reversed(values) ==
    Reverse(Map(SelectSeq(values, is_track_entry),
                LAMBDA val : from_object("Track", as_object(val)[1]).val))

\* What values.extract_if(..).map(..).collect() returns: the removed entries, in
\* their order, each as a Track.
popped_tracks(values) ==
    Map(SelectSeq(values, is_track_entry),
        LAMBDA val : from_object("Track", as_object(val)[1]).val)

\* A faulty variant of retained_values: the last kept child is lost.
retained_values_short(values) ==
    LET kept == SelectSeq(values, LAMBDA val : ~is_track_entry(val))
    IN  IF kept = <<>> THEN kept ELSE SubSeq(kept, 1, Len(kept) - 1)

\* What extract_if leaves in values: the entries the predicate rejects, in order.
retained_values(values) == SelectSeq(values, LAMBDA val : ~is_track_entry(val))

\* Vec::insert(index, element); it panics when index > len.
vec_insert(values, index, element) ==
    IF index > Len(values) THEN [panic |-> TRUE, values |-> values]
    ELSE [panic |-> FALSE,
          values |-> SubSeq(values, 1, index) \o <<element>>
                     \o SubSeq(values, index + 1, Len(values))]

RECURSIVE insert_tracks_forward(_, _, _)
\* A faulty variant of insert_tracks: the views are inserted first to last at the
\* same index.
insert_tracks_forward(values, index, new_tracks) ==
    IF new_tracks = <<>> THEN [panic |-> FALSE, values |-> values]
    ELSE LET done == vec_insert(values, index, EntryObject(Head(new_tracks).inner))
         IN  IF done.panic THEN done
             ELSE insert_tracks_forward(done.values, index, Tail(new_tracks))

RECURSIVE insert_tracks(_, _, _)
\* new_tracks.into_iter().rev().for_each(|track| values.insert(index, ..))
insert_tracks(values, index, new_tracks) ==
    IF new_tracks = <<>> THEN [panic |-> FALSE, values |-> values]
    ELSE LET n == Len(new_tracks)
             done == vec_insert(values, index, EntryObject(new_tracks[n].inner))
         IN  IF done.panic THEN done
             ELSE insert_tracks(done.values, index, SubSeq(new_tracks, 1, n - 1))

\* The transforms a caller hands to modify_tracks, by name.
Modifiers == {"identity", "reverse", "clear", "push", "replace", "raw"}

RENDER == <<"R", "E", "N", "D", "E", "R">>

TEMPO == <<"T", "E", "M", "P", "O">>

METRONOME == <<"M", "E", "T", "R", "O", "N", "O", "M", "E">>

NAME == <<"N", "A", "M", "E">>

TrackObject(id) ==
    NewObject(NewLine(TRACK, <<StringUnquoted(<<id>>)>>),
              <<EntryLine(NewLine(NAME, <<StringUnquoted(<<id>>)>>))>>)

MetronomeObject == NewObject(NewLine(METRONOME, <<>>), <<>>)

\* An object that is not a track and has a track among its own children.
GroupObject == NewObject(NewLine(ITEM, <<>>), <<EntryObject(TrackObject("B"))>>)

\* What the closure `modifier` returns for the tracks it is given.
ApplyModifier(m, ts) ==
    CASE m = "identity" -> ts
      [] m = "reverse" -> Reverse(ts)
      [] m = "clear" -> <<>>
      [] m = "push" -> Append(ts, from_object_raw("Track", TrackObject("C")))
      [] m = "replace" -> <<from_object_raw("Track", TrackObject("C"))>>
      [] m = "raw" -> Append(ts, from_object_raw("Track", MetronomeObject))

\* ReaperProject::modify_tracks: the project afterwards, the result, and what the
\* modifier was given and returned.
modify_tracks(self, m) ==
    LET index == original_index_start(self.inner.values)
    IN  IF ~index.ok
        THEN [self |-> self, result |-> index, panic |-> FALSE, anchor |-> None,
              invoked |-> FALSE, arg |-> <<>>, ret |-> <<>>]
        ELSE LET popped == popped_tracks(self.inner.values)
                 values == retained_values(self.inner.values)
                 new_tracks == ApplyModifier(m, popped)
                 done == insert_tracks(values, index.val, new_tracks)
             IN  [self |-> IF done.panic THEN self
                           ELSE [self EXCEPT !.inner.values = done.values],
                  result |-> Ok(Unit), panic |-> done.panic, anchor |-> Some(index.val),
                  invoked |-> TRUE, arg |-> popped, ret |-> new_tracks]

(***************************************************************************)
(* Spec: a project and the calls of modify_tracks on it.                   *)
(***************************************************************************)
\* The children a project of the model is built from.
EntryPool ==
    { EntryLine(NewLine(RENDER, <<>>)),
      EntryLine(NewLine(TEMPO, <<>>)),
      EntryObject(TrackObject("A")),
      EntryObject(TrackObject("B")),
      EntryObject(MetronomeObject),
      EntryAnonymousParameter(<<"Z", "X", "=">>),
      EntryObject(GroupObject),
      EntryLine(NewLine(TRACK, <<>>)) }

SeqsUpTo(S, n) == UNION {[1..k -> S] : k \in 0..n}

NoCall ==
    [op |-> "none", modifier |-> "none", pre |-> DUMMY_OBJECT, result |-> Ok(Unit),
     panic |-> FALSE, anchor |-> None, invoked |-> FALSE, arg |-> <<>>, ret |-> <<>>]

WrapIdle ==
    /\ slot = DUMMY_OBJECT /\ swapped = FALSE /\ wpc = "unused" /\ wty = "Track"
    /\ original = None /\ converted = None /\ valid = None /\ closure = "none"
    /\ steps = <<>> /\ outcome = None

ParseIdle ==
    /\ text = <<>> /\ parsed = None /\ output = None /\ reparsed = None /\ ppc = "unused"

NoViewCall ==
    [op |-> "none", closure |-> "none", pre |-> DUMMY_OBJECT, result |-> None,
     panic |-> FALSE, invoked |-> <<>>]

ViewIdle ==
    /\ subject = DUMMY_OBJECT /\ access = NoViewCall

Init ==
    /\ project \in {from_object_raw("ReaperProject",
                                    NewObject(NewLine(REAPER_PROJECT, <<>>), values)) :
                    values \in SeqsUpTo(EntryPool, MaxChildren)}
    /\ last = NoCall
    /\ WrapIdle
    /\ ParseIdle
    /\ ViewIdle

ModifyTracks(m) ==
    LET call == modify_tracks(project, m)
    IN  /\ Len(call.self.inner.values) <= MaxChildren
        /\ project' = call.self
        /\ last' = [op |-> "modify_tracks", modifier |-> m, pre |-> project.inner,
                    result |-> call.result, panic |-> call.panic, anchor |-> call.anchor,
                    invoked |-> call.invoked, arg |-> call.arg, ret |-> call.ret]
        /\ UNCHANGED <<wrapVars, parseVars, viewVars>>

\* project.tracks(): &self, the project is not touched.
Tracks ==
    /\ last' = [NoCall EXCEPT !.op = "tracks", !.pre = project.inner, !.ret = tracks(project)]
    /\ UNCHANGED <<project, wrapVars, parseVars, viewVars>>

Next ==
    \/ \E m \in Modifiers : ModifyTracks(m)
    \/ Tracks

Spec == Init /\ [][Next]_vars

(***************************************************************************)
(* SpecWrap: ObjectWrapper::with_as_object_mut on a slot, step by step.    *)
(* wpc is the position inside the call; swapped says that the slot holds   *)
(* the clone of DUMMY_OBJECT that the first mem::replace put there.        *)
(***************************************************************************)
FILE == <<"F", "I", "L", "E">>

TRACKS == <<"T", "R", "A", "C", "K", "S">>

SourceObject ==
    NewObject(NewLine(SOURCE, <<StringUnquoted(<<"W", "A", "V", "E">>)>>),
              <<EntryLine(NewLine(FILE, <<StringDoubleQuote(<<"a">>)>>))>>)

ItemObject == NewObject(NewLine(ITEM, <<>>), <<EntryObject(SourceObject)>>)

\* The objects a slot of the model starts with.
SlotPool ==
    { TrackObject("A"), ItemObject, SourceObject,
      NewObject(NewLine(REAPER_PROJECT, <<>>), <<EntryObject(TrackObject("A"))>>),
      MetronomeObject, DUMMY_OBJECT,
      NewObject(NewLine(TRACKS, <<>>), <<>>) }

\* The closures a caller hands to with_as_object_mut, by name; a view gives its
\* object out mutably (AsMut), so a closure may change all of it.
Closures == {"noop", "push_line", "clear", "rename", "make_dummy"}

\* The view after the closure ran on it.
ClosureEffect(f, view) ==
    CASE f = "noop" -> view
      [] f = "push_line" ->
            [view EXCEPT !.inner.values = Append(@, EntryLine(NewLine(TEMPO, <<>>)))]
      [] f = "clear" -> [view EXCEPT !.inner.values = <<>>]
      [] f = "rename" -> [view EXCEPT !.inner.header.attribute = METRONOME]
      [] f = "make_dummy" -> [view EXCEPT !.inner = DUMMY_OBJECT]

\* What the closure returns: here the number of children it found.
ClosureResult(f, view) == Len(view.inner.values)

\* A faulty variant of written_back: the view is dropped and the content taken
\* out at the start is put back.
written_back_stale(taken, view) == [object |-> taken, swapped |-> FALSE]

\* std::mem::replace(inner, valid.destroy()): what the slot holds afterwards.
written_back(taken, view) == [object |-> destroy(view), swapped |-> FALSE]

\* A faulty variant of restored: the error path leaves the slot alone.
restored_forgotten(current, taken) == [object |-> current, swapped |-> TRUE]

\* std::mem::replace(inner, original) on the error path: what the slot holds
\* afterwards.
restored(current, taken) == [object |-> taken, swapped |-> FALSE]

InitWrap ==
    /\ slot \in SlotPool
    /\ swapped = FALSE
    /\ wpc = "idle"
    /\ wty \in ViewTypes
    /\ original = None /\ converted = None /\ valid = None
    /\ closure = "none" /\ steps = <<>> /\ outcome = None
    /\ project = from_object_raw("ReaperProject", NewObject(NewLine(REAPER_PROJECT, <<>>), <<>>))
    /\ last = NoCall
    /\ ParseIdle
    /\ ViewIdle

\* The call and its first step: std::mem::replace(inner, dummy_object.clone()).
WithTake(ty, f) ==
    /\ wpc \in {"idle", "returned"}
    /\ f = "push_line" => Len(slot.values) < MaxChildren
    /\ wty' = ty
    /\ closure' = f
    /\ original' = Some(slot)
    /\ slot' = DUMMY_OBJECT
    /\ swapped' = TRUE
    /\ converted' = None /\ valid' = None /\ outcome' = None
    /\ steps' = <<"take">>
    /\ wpc' = "taken"
    /\ UNCHANGED <<trackVars, parseVars, viewVars>>

\* match Self::from_object(original.clone())
WithConvert ==
    /\ wpc = "taken"
    /\ LET conversion == from_object(wty, original[1])
       IN  /\ converted' = Some(conversion)
           /\ valid' = IF conversion.ok THEN Some(conversion.val) ELSE None
           /\ wpc' = IF conversion.ok THEN "converted" ELSE "failed"
    /\ steps' = Append(steps, "convert")
    /\ UNCHANGED <<slot, swapped, wty, original, closure, outcome, trackVars, parseVars, viewVars>>

\* Ok(mut valid) => with_as_object_mut(&mut valid)
WithClosure ==
    /\ wpc = "converted"
    /\ valid' = Some(ClosureEffect(closure, valid[1]))
    /\ outcome' = Some(Ok(ClosureResult(closure, valid[1])))
    /\ steps' = Append(steps, "closure")
    /\ wpc' = "mutated"
    /\ UNCHANGED <<slot, swapped, wty, original, converted, closure, trackVars, parseVars, viewVars>>

\* .tap(|_| { let _ = std::mem::replace(inner, valid.destroy()); }).pipe(Ok)
WithWriteBack ==
    /\ wpc = "mutated"
    /\ slot' = written_back(original[1], valid[1]).object
    /\ swapped' = written_back(original[1], valid[1]).swapped
    /\ steps' = Append(steps, "write_back")
    /\ wpc' = "returned"
    /\ UNCHANGED <<wty, original, converted, valid, closure, outcome, trackVars, parseVars, viewVars>>

\* Err(message) => { let _ = std::mem::replace(inner, original); Err(message) }
WithRestore ==
    /\ wpc = "failed"
    /\ slot' = restored(slot, original[1]).object
    /\ swapped' = restored(slot, original[1]).swapped
    /\ outcome' = Some(converted[1])
    /\ steps' = Append(steps, "restore")
    /\ wpc' = "returned"
    /\ UNCHANGED <<wty, original, converted, valid, closure, trackVars, parseVars, viewVars>>

NextWrap ==
    \/ \E ty \in ViewTypes, f \in Closures : WithTake(ty, f)
    \/ WithConvert
    \/ WithClosure
    \/ WithWriteBack
    \/ WithRestore

SpecWrap == InitWrap /\ [][NextWrap]_vars

(***************************************************************************)
(* The accessors of Object (low_level.rs) and of Track, Item and           *)
(* SourceWave (high_level.rs).  A &mut to a value is modelled by the value. *)
(***************************************************************************)
ObjectNoSuchParam(param) == [error |-> "ObjectNoSuchParam", param |-> param]

BadParamCount(expected, found) ==
    [error |-> "BadParamCount", expected |-> expected, found |-> found]

LowLevel(source) == [error |-> "LowLevel", source |-> source]

MissingAttribute(attribute) == [error |-> "MissingAttribute", attribute |-> attribute]

InvalidAttributeType(field, expected, found) ==
    [error |-> "InvalidAttributeType", field |-> field, expected |-> expected,
     found |-> found]

\* The positions (0-based) of the Line children with the given name.
line_indices(self, param) ==
    {i \in 0..(Len(self.values) - 1) :
         /\ as_line(self.values[i + 1]) # None
         /\ as_line(self.values[i + 1])[1].attribute = param}

\* The positions (0-based) of the children that are objects.
object_indices(self) ==
    {i \in 0..(Len(self.values) - 1) : as_object(self.values[i + 1]) # None}

\* The borrow child_object_mut hands out: the child's position and the object.
ChildRef(self, i) == [index |-> i, object |-> self.values[i + 1].object]

\* Object::child_object_mut: find_map(as_object_mut) stops at the first child
\* that is an object, and filter(..) then keeps it or gives None.
child_object_mut(self, name) ==
    IF object_indices(self) = {} THEN None
    ELSE With(Min(object_indices(self)), LAMBDA i :
             IF self.values[i + 1].object.header.attribute = name
             THEN Some(ChildRef(self, i)) ELSE None)

\* Object::attributes_mut: the values of the first Line child named param.
attributes_mut(self, param) ==
    IF line_indices(self, param) = {} THEN None
    ELSE Some(self.values[Min(line_indices(self, param)) + 1].line.values)

\* Object::single_attribute_mut: params.first_mut().ok_or(BadParamCount {..})
single_attribute_mut(self, param) ==
    With(attributes_mut(self, param), LAMBDA params :
        IF params = None THEN Err(ObjectNoSuchParam(param))
        ELSE IF params[1] = <<>> THEN Err(BadParamCount(1, Len(params[1])))
        ELSE Ok(params[1][1]))

\* The single_attribute_mut that SourceWave::file_mut is written against returns
\* Option<Result<&mut Attribute>>; low_level.rs holds the Result form only.  None
\* stands for the missing line, as the specification's media source without a
\* FILE line asks.
single_attribute_mut_option(self, param) ==
    IF attributes_mut(self, param) = None THEN None
    ELSE Some(single_attribute_mut(self, param))

\* Object::single_attribute, the read-only form SourceWave::file calls: an
\* Option<&Attribute>, so a line without a value can only give None.
single_attribute(self, param) ==
    With(attributes_mut(self, param), LAMBDA params :
        IF params = None \/ params[1] = <<>> THEN None ELSE Some(params[1][1]))

\* AttributeKind::from(&Attribute)
AttributeKind(attribute) == attribute.kind

\* The match on the attribute in SourceWave::file and file_mut.
file_of(out) ==
    IF out.kind = "String" THEN Ok(out.s)
    ELSE Err(InvalidAttributeType(FILE, "String", AttributeKind(out)))

\* SourceWave::file
file(self) ==
    With(single_attribute(self.inner, FILE), LAMBDA out :
        IF out = None THEN None ELSE Some(file_of(out[1])))

\* SourceWave::file_mut
file_mut(self) ==
    With(single_attribute_mut_option(self.inner, FILE), LAMBDA out :
        IF out = None THEN None
        ELSE IF out[1].ok THEN Some(file_of(out[1].val))
        ELSE Some(Err(LowLevel(out[1].err))))

\* A faulty variant of name: the last NAME line is read.
name_of_last_line(self) ==
    With(line_indices(self.inner, NAME), LAMBDA found :
        IF found = {} THEN Err(MissingAttribute(NAME))
        ELSE With(self.inner.values[(CHOOSE i \in found : \A j \in found : j <= i) + 1].line.values,
                  LAMBDA values :
                      IF values = <<>> THEN Err(MissingAttribute(NAME))
                      ELSE Ok(Attribute_serialize(values[1]))))

\* Track::name: find_map of the first Line named NAME, its first value, rendered
\* by serialize_inline.
name(self) ==
    With(attributes_mut(self.inner, NAME), LAMBDA values :
        IF values = None \/ values[1] = <<>> THEN Err(MissingAttribute(NAME))
        ELSE Ok(Attribute_serialize(values[1][1])))

\* ObjectWrapper::with_as_object_mut in one step: the slot afterwards, the
\* result, and the views the closure was called on.
with_as_object_mut(ty, inner, f) ==
    With(from_object(ty, inner), LAMBDA conversion :
        IF conversion.ok
        THEN [inner |-> written_back(inner, ClosureEffect(f, conversion.val)).object,
              result |-> Ok(ClosureResult(f, conversion.val)),
              invoked |-> <<conversion.val>>]
        ELSE [inner |-> restored(DUMMY_OBJECT, inner).object,
              result |-> conversion,
              invoked |-> <<>>])

\* .filter_map(|e| e.as_object_mut()).filter(|object| View::matches_object(object))
is_child_of_type(e, ty) == as_object(e) # None /\ matches_object(ty, as_object(e)[1])

\* The iterator chain shared by Track::modify_items and
\* Item::with_source_waves_mut: with_as_object_mut on every object child of the
\* type, in order, each result unwrapped by expect.
scoped_children(self, ty, f) ==
    With([i \in 1..Len(self.inner.values) |->
              IF is_child_of_type(self.inner.values[i], ty)
              THEN with_as_object_mut(ty, self.inner.values[i].object, f)
              ELSE [inner |-> DUMMY_OBJECT, result |-> Ok(Unit), invoked |-> <<>>]],
         LAMBDA calls :
             [self |-> [self EXCEPT !.inner.values =
                            [i \in 1..Len(self.inner.values) |->
                                 IF is_child_of_type(self.inner.values[i], ty)
                                 THEN EntryObject(calls[i].inner)
                                 ELSE self.inner.values[i]]],
              ret |-> Map(SelectSeq(calls, LAMBDA c : c.invoked # <<>>),
                          LAMBDA c : c.result.val),
              panic |-> \E i \in 1..Len(calls) :
                            /\ is_child_of_type(self.inner.values[i], ty)
                            /\ ~calls[i].result.ok,
              invoked |-> Map(SelectSeq(calls, LAMBDA c : c.invoked # <<>>),
                              LAMBDA c : c.invoked[1])])

\* A faulty variant of modify_items: the media sources are visited.
modify_items_of_source_waves(self, f) == scoped_children(self, "SourceWave", f)

\* Track::modify_items
modify_items(self, f) == scoped_children(self, "Item", f)

\* Item::with_source_waves_mut
with_source_waves_mut(self, f) == scoped_children(self, "SourceWave", f)

(***************************************************************************)
(* SpecView: a typed view and the accessor calls on it.                    *)
(***************************************************************************)
MaxViewChildren == 2

PLATE == <<"P", "L", "A", "T", "E">>

\* The NAME and FILE lines the views of the model are built from.
ValuePool ==
    { <<>>,
      <<StringUnquoted(PLATE)>>,
      <<StringDoubleQuote(<<"a", " ", "b">>)>>,
      <<StringSingleQuote(<<>>)>>,
      <<[kind |-> "Int", v |-> 5]>>,
      <<StringDoubleQuote(<<"a">>), StringUnquoted(<<"b">>)>> }

BareSource == NewObject(NewLine(SOURCE, <<>>), <<>>)

TrackChildPool ==
    { EntryLine(NewLine(NAME, values)) : values \in ValuePool }
    \cup { EntryObject(ItemObject),
           EntryObject(NewObject(NewLine(ITEM, <<>>), <<>>)),
           EntryObject(SourceObject),
           EntryLine(NewLine(ITEM, <<>>)),
           EntryAnonymousParameter(<<"Z", "X", "=">>) }

ItemChildPool ==
    { EntryObject(SourceObject),
      EntryObject(BareSource),
      EntryObject(TrackObject("A")),
      EntryLine(NewLine(SOURCE, <<>>)),
      EntryAnonymousParameter(<<"Z", "X", "=">>) }

SourceChildPool ==
    { EntryLine(NewLine(FILE, values)) : values \in ValuePool }
    \cup { EntryLine(NewLine(TEMPO, <<>>)),
           EntryObject(NewObject(NewLine(FILE, <<>>), <<>>)) }

ChildrenOf(ty) ==
    CASE ty = "Track" -> TrackChildPool
      [] ty = "Item" -> ItemChildPool
      [] ty = "SourceWave" -> SourceChildPool

\* Three children of a kind with another child between them.
MixedChildren ==
    { <<EntryObject(ItemObject), EntryObject(SourceObject),
        EntryObject(NewObject(NewLine(ITEM, <<>>), <<>>))>>,
      <<EntryLine(NewLine(NAME, <<>>)), EntryObject(ItemObject),
        EntryLine(NewLine(NAME, <<StringUnquoted(PLATE)>>))>>,
      <<EntryLine(NewLine(FILE, <<[kind |-> "Int", v |-> 5]>>)), EntryLine(NewLine(TEMPO, <<>>)),
        EntryLine(NewLine(FILE, <<StringDoubleQuote(<<"a">>)>>))>> }

\* The views a caller may hold: each made by from_object from an object with
\* the view's tag.
SubjectPool ==
    UNION { { from_object(ty, NewObject(NewLine(ATTRIBUTE_NAME(ty), <<>>), values)).val :
                  values \in SeqsUpTo(ChildrenOf(ty), MaxViewChildren) \cup MixedChildren } :
            ty \in {"Track", "Item", "SourceWave"} }

\* The names single-attribute access is asked for.
Params == {NAME, FILE, TEMPO}

InitView ==
    /\ subject \in SubjectPool
    /\ access = NoViewCall
    /\ project = from_object_raw("ReaperProject", NewObject(NewLine(REAPER_PROJECT, <<>>), <<>>))
    /\ last = NoCall
    /\ WrapIdle
    /\ ParseIdle

\* The closure push_line is kept from growing an object without bound.
Bounded(view) ==
    \A i \in 1..Len(view.inner.values) :
        as_object(view.inner.values[i]) # None
            => Len(view.inner.values[i].object.values) <= MaxChildren

CallName ==
    /\ subject.ty = "Track"
    /\ access' = [NoViewCall EXCEPT !.op = "name", !.pre = subject.inner,
                                    !.result = Some(name(subject))]
    /\ UNCHANGED <<subject, project, last, wrapVars, parseVars>>

Scoped(op, f, call) ==
    /\ Bounded(call.self)
    /\ subject' = call.self
    /\ access' = [op |-> op, closure |-> f, pre |-> subject.inner,
                  result |-> Some(call.ret), panic |-> call.panic,
                  invoked |-> call.invoked]
    /\ UNCHANGED <<project, last, wrapVars, parseVars>>

CallModifyItems(f) ==
    /\ subject.ty = "Track"
    /\ Scoped("modify_items", f, modify_items(subject, f))

CallWithSourceWavesMut(f) ==
    /\ subject.ty = "Item"
    /\ Scoped("with_source_waves_mut", f, with_source_waves_mut(subject, f))

CallFile ==
    /\ subject.ty = "SourceWave"
    /\ access' = [NoViewCall EXCEPT !.op = "file", !.pre = subject.inner,
                                    !.result = Some(file(subject))]
    /\ UNCHANGED <<subject, project, last, wrapVars, parseVars>>

CallFileMut ==
    /\ subject.ty = "SourceWave"
    /\ access' = [NoViewCall EXCEPT !.op = "file_mut", !.pre = subject.inner,
                                    !.result = Some(file_mut(subject))]
    /\ UNCHANGED <<subject, project, last, wrapVars, parseVars>>

\* as_mut() of a view gives the object, and single_attribute_mut is public.
CallSingleAttributeMut(param) ==
    /\ access' = [NoViewCall EXCEPT !.op = "single_attribute_mut", !.closure = param,
                                    !.pre = subject.inner,
                                    !.result = Some(single_attribute_mut(subject.inner, param))]
    /\ UNCHANGED <<subject, project, last, wrapVars, parseVars>>

\* The header names child_object_mut is asked for.
ObjectNames == {ITEM, SOURCE, TRACK}

\* child_object_mut is public too; the borrow it returns is not written through.
CallChildObjectMut(header) ==
    /\ access' = [NoViewCall EXCEPT !.op = "child_object_mut", !.closure = header,
                                    !.pre = subject.inner,
                                    !.result = Some(child_object_mut(subject.inner, header))]
    /\ UNCHANGED <<subject, project, last, wrapVars, parseVars>>

NextView ==
    \/ CallName
    \/ \E f \in Closures : CallModifyItems(f)
    \/ \E f \in Closures : CallWithSourceWavesMut(f)
    \/ CallFile
    \/ CallFileMut
    \/ \E param \in Params : CallSingleAttributeMut(param)
    \/ \E header \in ObjectNames : CallChildObjectMut(header)

SpecView == InitView /\ [][NextView]_vars

(***************************************************************************)
(* SpecParse: a document text, from_str on it, to_string on the tree.      *)
(* ppc is the position: "input", "parsed", "serialized".                   *)
(***************************************************************************)
\* The most values on a header line and the most children of a document text.
MaxValues == 2

MaxEntries == 2

RECURSIVE Concat(_)
Concat(pieces) == IF pieces = <<>> THEN <<>> ELSE Head(pieces) \o Concat(Tail(pieces))

\* The texts of one value: integers and floats in and out of the form Display
\* gives them, a U-number, a uid, quoted and bare strings, and the empty text that
\* two adjacent spaces leave.
TokenPool ==
    { <<"1">>, <<"+", "5">>, <<"0", "0", "7">>, <<"-", "0">>,
      <<"0", ".", "5">>, <<"0", ".", "5", "0">>, <<"1", ".", "0">>,
      <<"-", "1", ":", "U">>, <<"{", "A", "1", "}">>,
      <<"\"", "a", " ", "b", "\"">>, <<"'", "x", "'">>,
      <<"a", "b", "c">>, <<>> }

Newlines == { <<CR, LF>>, <<LF>> }

\* The texts of one child, without its newline: lines, an encoded-data line, an
\* object, and a line that is not indented as its depth asks.
ChildPool(nl) ==
    { <<" ", " ", "V", "O", "L", " ", "0", ".", "2", "5">>,
      <<" ", " ", "Z", "X", "=">>,
      <<" ", " ", "N", "A", "M", "E", " ", "\"", "a", " ", "b", "\"">>,
      <<" ", " ", "<">> \o TRACK \o nl \o <<" ", " ", ">">>,
      <<" ", "B">> }

Suffixes == { <<>>, <<CR, LF>>, <<LF>>, <<"x">> }

HeaderNames == { <<"A">>, <<"a">>, REAPER_PROJECT }

\* "<" header values newline children ">" suffix
Document(header, tokens, children, nl, suffix) ==
    <<"<">> \o header
        \o Concat([i \in 1..Len(tokens) |-> <<" ">> \o tokens[i]]) \o nl
        \o Concat([i \in 1..Len(children) |-> children[i] \o nl])
        \o <<">">> \o suffix

Documents ==
    { Document(<<"A">>, tokens, <<>>, nl, <<CR, LF>>) :
          tokens \in SeqsUpTo(TokenPool, MaxValues), nl \in Newlines }
    \cup UNION { { Document(<<"A">>, <<>>, children, nl, suffix) :
                       children \in SeqsUpTo(ChildPool(nl), MaxEntries),
                       suffix \in Suffixes } : nl \in Newlines }
    \cup { Document(header, <<>>, <<>>, nl, <<CR, LF>>) :
               header \in HeaderNames, nl \in Newlines }
    \cup UNION { { Document(REAPER_PROJECT, <<>>, <<child>>, nl, <<CR, LF>>) :
                       child \in ChildPool(nl) } : nl \in Newlines }

\* The most spaces a line of the indentation documents starts with.
MaxIndent == 5

Spaces(n) == [i \in 1..n |-> " "]

\* An object whose opening and closing lines start with the given numbers of
\* spaces; body is the text of its children, each with its newline.
IndentedObject(header, open, body, close, nl) ==
    Spaces(open) \o <<"<">> \o header \o nl \o body \o Spaces(close) \o <<">">>

\* Documents whose lines are indented as their depth asks, or less, or more: one
\* child that is a line or an encoded-data line, and one nested object with a
\* line of its own.
IndentDocuments ==
    UNION { { IndentedObject(<<"A">>, a, Spaces(b) \o child \o nl, c, nl) \o nl :
                  a \in 0..1, b \in 0..MaxIndent, c \in 0..1,
                  child \in { <<"B", " ", "1">>, <<"Z", "X", "=">> } }
            \cup
            { IndentedObject(<<"A">>, 0,
                  IndentedObject(TRACK, a, Spaces(b) \o <<"B", " ", "1">> \o nl, c, nl) \o nl,
                  0, nl) \o nl :
                  a \in 0..MaxIndent, b \in 0..MaxIndent, c \in 0..MaxIndent } :
            nl \in Newlines }

\* The texts of one child at depth 1, without its newline: an object, a line with
\* a value, a line without one (the encoded-data grammar takes its text too) and
\* an encoded-data line.
EntryTexts(nl) ==
    << <<" ", " ", "<">> \o TRACK \o nl \o <<" ", " ", ">">>,
       <<" ", " ", "V", "O", "L", " ", "0", ".", "2", "5">>,
       <<" ", " ", "A", "B">>,
       <<" ", " ", "Z", "X", "=">> >>

\* What may stand between the end of child k and its newline; after a value a
\* character that is not whitespace would be part of the value.
Trailers(k) == IF k = 2 THEN { <<>>, <<" ">>, <<TAB>> } ELSE { <<>>, <<" ">>, <<TAB>>, <<">">> }

\* Documents of one child, with or without something after it on its line.
TerminatorDocuments ==
    UNION { UNION { { Document(<<"A">>, <<>>, <<EntryTexts(nl)[k] \o trailer>>, nl, <<CR, LF>>) :
                          trailer \in Trailers(k) } : k \in 1..4 } : nl \in Newlines }

AUXRECV == <<"A", "U", "X", "R", "E", "C", "V">>

\* The texts of one value the scalar grammar is tried on, besides those of
\* TokenPool: uids, empty quoted strings, U-numbers, integers, floats and tokens
\* that only the catch-all takes.
ScalarTexts ==
    TokenPool \cup
    { <<"{", "A", "3", "-", "b", "F", "}">>, <<"{", "}">>, <<"{", "G", "}">>,
      <<"\"", "\"">>, <<"'", "'">>, <<"'", "a", "\"", "'">>,
      <<"0", ":", "U">>, <<"0", "1", ":", "U">>, <<"-", "0", ":", "U">>,
      <<"1", "2">>, <<"-", "7">>, <<"1", ".", "5">>, <<"1", "e", "2">>,
      <<"-", "1", ":", "U", " ", "0">>, <<"1", "2", " ", "a">>, <<"1", "2", "a">> }

\* The texts Line::deserialize is tried on: a name and values, and the AUXRECV
\* line of the authors' test.
LineTexts ==
    { NAME \o Concat([i \in 1..Len(tokens) |-> <<" ">> \o tokens[i]]) :
          tokens \in SeqsUpTo(ScalarTexts, MaxValues) }
    \cup { AUXRECV \o <<" ", "0", " ", "0", " ", "1", " ", "0", " ", "0", " ", "0",
                       " ", "0", " ", "0", " ", "0", " ", "-", "1", ":", "U",
                       " ", "0", " ", "-", "1", " ", "'", "'">> }

\* A faulty variant of parse_from_str: the root's tag is not looked at.
parse_from_str_unchecked(input) ==
    With(from_str(input), LAMBDA tree :
        IF tree.ok THEN Ok(from_object_raw("ReaperProject", tree.val))
        ELSE Err(LowLevel(tree.err)))

\* ReaperProject::parse_from_str
parse_from_str(input) ==
    With(from_str(input), LAMBDA tree :
        IF tree.ok THEN from_object("ReaperProject", tree.val)
        ELSE Err(LowLevel(tree.err)))

\* ReaperProject::serialize_to_string; to_string cannot fail on a String.
serialize_to_string(self) == to_string(self.inner)

InitParse ==
    /\ text \in Documents \cup IndentDocuments \cup TerminatorDocuments
                \cup ScalarTexts \cup LineTexts
    /\ parsed = None /\ output = None /\ reparsed = None /\ ppc = "input"
    /\ project = from_object_raw("ReaperProject", NewObject(NewLine(REAPER_PROJECT, <<>>), <<>>))
    /\ last = NoCall
    /\ WrapIdle
    /\ ViewIdle

\* from_str(text)
CallFromStr ==
    /\ ppc = "input"
    /\ parsed' = Some(from_str(text))
    /\ ppc' = "parsed"
    /\ UNCHANGED <<text, output, reparsed, trackVars, wrapVars, viewVars>>

\* to_string(object) on the tree from_str returned
CallToString ==
    /\ ppc = "parsed"
    /\ parsed[1].ok
    /\ output' = Some(to_string(parsed[1].val))
    /\ ppc' = "serialized"
    /\ UNCHANGED <<text, parsed, reparsed, trackVars, wrapVars, viewVars>>

\* from_str on the text to_string returned
CallFromStrAgain ==
    /\ ppc = "serialized"
    /\ output[1].ok
    /\ reparsed' = Some(from_str(output[1].val))
    /\ ppc' = "reparsed"
    /\ UNCHANGED <<text, parsed, output, trackVars, wrapVars, viewVars>>

\* ReaperProject::parse_from_str(text)
CallParseFromStr ==
    /\ ppc = "input"
    /\ parsed' = Some(parse_from_str(text))
    /\ ppc' = "loaded"
    /\ UNCHANGED <<text, output, reparsed, trackVars, wrapVars, viewVars>>

\* project.serialize_to_string() on the project parse_from_str returned
CallSerializeToString ==
    /\ ppc = "loaded"
    /\ parsed[1].ok
    /\ output' = Some(serialize_to_string(parsed[1].val))
    /\ ppc' = "saved"
    /\ UNCHANGED <<text, parsed, reparsed, trackVars, wrapVars, viewVars>>

\* Attribute::deserialize(text, 0)
CallAttributeDeserialize ==
    /\ ppc = "input"
    /\ parsed' = Some(Attribute_deserialize(text))
    /\ ppc' = "attribute"
    /\ UNCHANGED <<text, output, reparsed, trackVars, wrapVars, viewVars>>

\* attribute.serialize_inline() on the value Attribute::deserialize returned
CallAttributeSerialize ==
    /\ ppc = "attribute"
    /\ parsed[1].ok
    /\ output' = Some(Ok(Attribute_serialize(parsed[1].val)))
    /\ ppc' = "attribute_serialized"
    /\ UNCHANGED <<text, parsed, reparsed, trackVars, wrapVars, viewVars>>

\* Line::deserialize(text, 0)
CallLineDeserialize ==
    /\ ppc = "input"
    /\ parsed' = Some(Line_deserialize(text, 0))
    /\ ppc' = "line"
    /\ UNCHANGED <<text, output, reparsed, trackVars, wrapVars, viewVars>>

\* line.serialize_inline() on the line Line::deserialize returned
CallLineSerialize ==
    /\ ppc = "line"
    /\ parsed[1].ok
    /\ output' = Some(Ok(Line_serialize(parsed[1].val, 0)))
    /\ ppc' = "line_serialized"
    /\ UNCHANGED <<text, parsed, reparsed, trackVars, wrapVars, viewVars>>

NextParse ==
    \/ CallFromStr
    \/ CallToString
    \/ CallFromStrAgain
    \/ CallParseFromStr
    \/ CallSerializeToString
    \/ CallAttributeDeserialize
    \/ CallAttributeSerialize
    \/ CallLineDeserialize
    \/ CallLineSerialize

SpecParse == InitParse /\ [][NextParse]_vars

(***************************************************************************)
(* The claims about the text round trip, checked under SpecParse.          *)
(***************************************************************************)
\* C1: for every text from_str accepts, to_string of the tree from_str returned
\* is the text again, character for character.
C1_RoundTrip ==
    ppc = "serialized" => (output[1].ok /\ output[1].val = text)

(***************************************************************************)
(* The claims about modify_tracks, checked under Spec.                     *)
(***************************************************************************)
\* A child that is a TRACK object, said without the code's own checks.
IsTrackChild(e) == e.tag = "Object" /\ e.object.header.attribute = TRACK

\* The children the views of a list become when they are reinserted.
EntriesOf(views) == Map(views, LAMBDA view : EntryObject(view.inner))

\* modify_tracks has returned Ok.
ModifiedOk == last.op = "modify_tracks" /\ last.result.ok /\ ~last.panic

\* C2: modify_tracks with the identity transform on a project with at least one
\* child returns Ok and leaves the child sequence as it was, in order and content.
C2_IdentityKeepsChildren ==
    (last.op = "modify_tracks" /\ last.modifier = "identity" /\ last.pre.values # <<>>)
        => (ModifiedOk /\ project.inner.values = last.pre.values)

\* C3: after modify_tracks returns Ok, the children that were not TRACK objects
\* are there in their original order and unchanged, and the views the transform
\* returned are one contiguous block among them, in the order it returned them.
C3_BlockAmongOthers ==
    ModifiedOk =>
        \E k \in 0..Len(project.inner.values) :
            LET values == project.inner.values
                n == Len(last.ret)
            IN  /\ k + n <= Len(values)
                /\ SubSeq(values, k + 1, k + n) = EntriesOf(last.ret)
                /\ SubSeq(values, 1, k) \o SubSeq(values, k + n + 1, Len(values))
                       = SelectSeq(last.pre.values, LAMBDA e : ~IsTrackChild(e))

\* Two tracks and another child went in, and the tracks came back reordered.
C3_Witness ==
    /\ ModifiedOk
    /\ last.modifier = "reverse"
    /\ Len(last.ret) = 2
    /\ last.ret[1] # last.ret[2]
    /\ \E i \in 1..Len(last.pre.values) : ~IsTrackChild(last.pre.values[i])

\* C4: when the project has a TRACK child, the anchor modify_tracks inserts at is
\* the index of the first TRACK child.
C4_AnchorIsFirstTrack ==
    (ModifiedOk /\ \E i \in 1..Len(last.pre.values) : IsTrackChild(last.pre.values[i]))
        => last.anchor
               = Some(Min({i \in 1..Len(last.pre.values) :
                               IsTrackChild(last.pre.values[i])}) - 1)

\* C5: when the project has children and none is a TRACK object, the returned
\* views are appended after every child that was there.
C5_AppendsWhenNoTrack ==
    (/\ ModifiedOk
     /\ last.pre.values # <<>>
     /\ \A i \in 1..Len(last.pre.values) : ~IsTrackChild(last.pre.values[i]))
        => project.inner.values = last.pre.values \o EntriesOf(last.ret)

\* C6: on a project without children modify_tracks returns the EmptyProject
\* error, does not call the transform, and leaves the project as it was.
C6_EmptyProjectError ==
    (last.op = "modify_tracks" /\ last.pre.values = <<>>)
        => /\ last.result = Err(EmptyProject)
           /\ ~last.invoked
           /\ ~last.panic
           /\ project.inner = last.pre

\* modify_tracks was called on a project without children.
C6_Witness ==
    /\ last.op = "modify_tracks"
    /\ last.pre.values = <<>>
    /\ last.modifier = "push"

\* C7: the transform is given the TRACK children in document order, which is what
\* tracks() returned before the call; after Ok, when every returned view is
\* TRACK-tagged, tracks() is the returned list: no earlier track is left.
C7_TracksInTracksOut ==
    ModifiedOk =>
        /\ last.arg = tracks(from_object_raw("ReaperProject", last.pre))
        /\ last.arg = Map(SelectSeq(last.pre.values, IsTrackChild),
                          LAMBDA e : from_object_raw("Track", e.object))
        /\ (\A i \in 1..Len(last.ret) : last.ret[i].inner.header.attribute = TRACK)
               => tracks(project) = last.ret

\* Two different tracks were handed over and a different list came back.
C7_Witness ==
    /\ ModifiedOk
    /\ Len(last.arg) = 2
    /\ last.arg[1] # last.arg[2]
    /\ last.ret # last.arg
    /\ last.ret # <<>>
    /\ \A i \in 1..Len(last.ret) : last.ret[i].inner.header.attribute = TRACK

(***************************************************************************)
(* The claims about the typed views, checked under SpecWrap.               *)
(***************************************************************************)
\* with_as_object_mut has returned.
Returned == wpc = "returned"

\* C8: when the slot's header name differs from the view's tag, the call returns
\* the InvalidObject error, never runs the closure, and the slot holds what it
\* held before the call.
C8_FailedConversionRestores ==
    (Returned /\ original[1].header.attribute # ATTRIBUTE_NAME(wty))
        => /\ outcome = Some(Err(InvalidObject(ATTRIBUTE_NAME(wty),
                                               original[1].header.attribute)))
           /\ \A i \in 1..Len(steps) : steps[i] # "closure"
           /\ slot = original[1]
           /\ ~swapped

\* A track with a child was in the slot and the call was made for an Item.
C8_Witness ==
    /\ Returned
    /\ wty = "Item"
    /\ original[1].header.attribute = TRACK
    /\ original[1].values # <<>>
    /\ closure = "clear"

\* C9: the placeholder is in the slot exactly between the take and the write-back;
\* when the call has returned it is gone, and on success the steps were take,
\* convert, the closure once, write back, the slot holds the object of the view as
\* the closure left it, and the closure's result is what is returned.
C9_PlaceholderOnlyInside ==
    /\ swapped <=> wpc \in {"taken", "converted", "mutated", "failed"}
    /\ swapped => slot = DUMMY_OBJECT
    /\ (Returned /\ outcome[1].ok)
           => /\ steps = <<"take", "convert", "closure", "write_back">>
              /\ slot = ClosureEffect(closure, from_object_raw(wty, original[1])).inner
              /\ outcome[1].val = ClosureResult(closure, from_object_raw(wty, original[1]))
    /\ (Returned /\ ~outcome[1].ok) => steps = <<"take", "convert", "restore">>

\* A call succeeded whose closure changed the view.
C9_Witness ==
    /\ Returned
    /\ outcome[1].ok
    /\ closure = "push_line"
    /\ slot # original[1]
    /\ original[1].values # <<>>

\* C10: from_object succeeds exactly when the header name is the view's tag,
\* matches_object is true in exactly those cases, and the error of a failure is
\* InvalidObject with the tag as expected and the header name as got.
C10_SchemaCheck ==
    converted # None =>
        LET o == original[1]
            T == ATTRIBUTE_NAME(wty)
        IN  /\ converted[1].ok <=> o.header.attribute = T
            /\ matches_object(wty, o) <=> o.header.attribute = T
            /\ converted[1].ok => converted[1].val.inner = o
            /\ ~converted[1].ok => converted[1].err = InvalidObject(T, o.header.attribute)

\* A conversion failed on an object whose name starts with the tag.
C10_Witness ==
    /\ converted # None
    /\ ~converted[1].ok
    /\ wty = "Track"
    /\ original[1].header.attribute = TRACKS

\* C11: for every object whose header name is the view's tag, destroy of the view
\* from_object made of it is the object again: header, header values and
\* children, in order.
C11_UnwrapIdentity ==
    wpc = "converted" =>
        /\ original[1].header.attribute = ATTRIBUTE_NAME(wty)
        /\ destroy(valid[1]) = original[1]

C11_Witness ==
    /\ wpc = "converted"
    /\ original[1].values # <<>>
    /\ original[1].header.values # <<>>
    /\ destroy(valid[1]) = original[1]

\* C12: a typed view that exists owns an object whose header name is the tag of
\* its view type, whatever was done to it through its public surface.
C12_ViewTagInvariant ==
    valid # None => valid[1].inner.header.attribute = ATTRIBUTE_NAME(valid[1].ty)

\* C13: parse_from_str succeeds, with the project owning the parsed object, iff
\* the text parses as a depth-0 Object named REAPER_PROJECT; a parsed object of
\* another name gives InvalidObject {expected: REAPER_PROJECT, got: its name}, a
\* grammar failure gives the low-level ParseError, and a failure carries no
\* project.
C13_ParseFromStr ==
    ppc = "loaded" =>
        With(Object_deserialize(text, 0), LAMBDA object :
            /\ parsed[1].ok <=> (object.ok /\ object.val.header.attribute = REAPER_PROJECT)
            /\ parsed[1].ok => parsed[1].val.inner = object.val
            /\ (object.ok /\ object.val.header.attribute # REAPER_PROJECT) =>
                   parsed[1] = Err(InvalidObject(REAPER_PROJECT, object.val.header.attribute))
            /\ ~object.ok => parsed[1] = Err(LowLevel(ParseError))
            /\ ~parsed[1].ok => "val" \notin DOMAIN parsed[1])

C13_Witness ==
    /\ ppc = "loaded"
    /\ from_str(text).ok
    /\ parsed[1] = Err(InvalidObject(REAPER_PROJECT, <<"A">>))

\* C14: tracks() returns the direct children that are objects named TRACK, each
\* as a view, in document order, nothing else and nothing nested, and the project
\* is as it was.
C14_TracksAreDirectTrackChildren ==
    last.op = "tracks" =>
        /\ last.ret = Map(SelectSeq(last.pre.values, IsTrackChild),
                          LAMBDA e : [ty |-> "Track", inner |-> e.object])
        /\ project.inner = last.pre

C14_Witness ==
    /\ last.op = "tracks"
    /\ Len(last.ret) = 1
    /\ \E i \in 1..Len(project.inner.values) : project.inner.values[i] = EntryObject(GroupObject)
    /\ \E i \in 1..Len(project.inner.values) : project.inner.values[i] = EntryLine(NewLine(TRACK, <<>>))


\* The child at position i of the object is a Line named NAME.
IsNameLine(object, i) ==
    /\ object.values[i].tag = "Line"
    /\ object.values[i].line.attribute = NAME

\* C15 as stated: name() returns MissingAttribute {attribute: NAME} exactly when
\* the track has no NAME line, and for a NAME line whose single value is the
\* unquoted string PLATE it returns PLATE.
C15_NameMissingOnlyWithoutLine ==
    access.op = "name" =>
        /\ access.result[1] = Err(MissingAttribute(NAME))
               <=> ~\E i \in 1..Len(access.pre.values) : IsNameLine(access.pre, i)
        /\ (\E i \in 1..Len(access.pre.values) :
                /\ IsNameLine(access.pre, i)
                /\ \A j \in 1..(i - 1) : ~IsNameLine(access.pre, j)
                /\ access.pre.values[i].line.values = <<StringUnquoted(PLATE)>>)
               => access.result[1] = Ok(PLATE)

\* C15 amended: name() returns MissingAttribute {attribute: NAME} exactly when
\* the track has no NAME line or its first NAME line holds no value; otherwise it
\* returns the inline serialization of the first value of the first NAME line,
\* which is PLATE for the unquoted string PLATE.  The track is not changed.
C15_NameOfFirstLine ==
    access.op = "name" =>
        /\ subject.inner = access.pre
        /\ access.result[1] = Err(MissingAttribute(NAME))
               <=> \A i \in 1..Len(access.pre.values) :
                       (IsNameLine(access.pre, i)
                            /\ \A j \in 1..(i - 1) : ~IsNameLine(access.pre, j))
                           => access.pre.values[i].line.values = <<>>
        /\ \A i \in 1..Len(access.pre.values) :
               (/\ IsNameLine(access.pre, i)
                /\ \A j \in 1..(i - 1) : ~IsNameLine(access.pre, j)
                /\ access.pre.values[i].line.values # <<>>)
                   => /\ access.result[1]
                             = Ok(Attribute_serialize(access.pre.values[i].line.values[1]))
                      /\ (access.pre.values[i].line.values[1] = StringUnquoted(PLATE)
                              => access.result[1] = Ok(PLATE))

\* name() was called on a track with two NAME lines, the first with the single
\* value PLATE, and returned PLATE.
C15_Witness ==
    /\ access.op = "name"
    /\ \E i, j \in 1..Len(access.pre.values) :
           /\ i < j
           /\ IsNameLine(access.pre, i) /\ IsNameLine(access.pre, j)
           /\ access.pre.values[i].line.values = <<StringUnquoted(PLATE)>>
           /\ access.pre.values[j].line.values # <<StringUnquoted(PLATE)>>
    /\ access.result[1] = Ok(PLATE)


\* The entry is an object whose header name is the tag of the view type.
IsChildTagged(e, ty) == e.tag = "Object" /\ e.object.header.attribute = ATTRIBUTE_NAME(ty)

\* The view type the scoped call visits.
VisitedType == IF access.op = "modify_items" THEN "Item" ELSE "SourceWave"

\* C16: modify_items(f) (and with_source_waves_mut(f) alike) calls f once on each
\* direct ITEM (SOURCE) child in document order and returns the results in that
\* order, does not panic, and leaves the header, the number and order of the
\* children and every other child as they were; a visited child holds what f
\* left in its view.
C16_ModifyItemsFrame ==
    access.op \in {"modify_items", "with_source_waves_mut"} =>
        /\ ~access.panic
        /\ access.invoked
               = Map(SelectSeq(access.pre.values, LAMBDA e : IsChildTagged(e, VisitedType)),
                     LAMBDA e : [ty |-> VisitedType, inner |-> e.object])
        /\ access.result[1]
               = Map(SelectSeq(access.pre.values, LAMBDA e : IsChildTagged(e, VisitedType)),
                     LAMBDA e : ClosureResult(access.closure,
                                              [ty |-> VisitedType, inner |-> e.object]))
        /\ subject.inner.header = access.pre.header
        /\ Len(subject.inner.values) = Len(access.pre.values)
        /\ \A i \in 1..Len(access.pre.values) :
               IF IsChildTagged(access.pre.values[i], VisitedType)
               THEN subject.inner.values[i]
                        = EntryObject(ClosureEffect(access.closure,
                              [ty |-> VisitedType,
                               inner |-> access.pre.values[i].object]).inner)
               ELSE subject.inner.values[i] = access.pre.values[i]

\* modify_items ran a closure that adds a line on a track with two items of
\* different sizes and another object between them.
C16_Witness ==
    /\ access.op = "modify_items" /\ access.closure = "push_line"
    /\ Len(access.pre.values) = 3
    /\ IsChildTagged(access.pre.values[1], "Item")
    /\ access.pre.values[2].tag = "Object" /\ ~IsChildTagged(access.pre.values[2], "Item")
    /\ IsChildTagged(access.pre.values[3], "Item")
    /\ access.result[1] = <<1, 0>>
    /\ subject.inner.values[1] # access.pre.values[1]
    /\ subject.inner.values[2] = access.pre.values[2]


\* The child at position i of the object is the first Line named param.
IsFirstLineNamed(object, param, i) ==
    /\ object.values[i].tag = "Line" /\ object.values[i].line.attribute = param
    /\ \A j \in 1..(i - 1) :
           ~(object.values[j].tag = "Line" /\ object.values[j].line.attribute = param)

C18_CardinalityCheck ==
    access.op = "single_attribute_mut" =>
        /\ (~\E i \in 1..Len(access.pre.values) :
                 IsFirstLineNamed(access.pre, access.closure, i))
               => access.result[1] = Err(ObjectNoSuchParam(access.closure))
        /\ \A i \in 1..Len(access.pre.values) :
               IsFirstLineNamed(access.pre, access.closure, i)
                   => access.result[1]
                          = IF Len(access.pre.values[i].line.values) = 1
                            THEN Ok(access.pre.values[i].line.values[1])
                            ELSE Err(BadParamCount(1, Len(access.pre.values[i].line.values)))


\* The alternatives of the scalar grammar in their fixed order, each tried on
\* the whole input.
Alternatives(input) ==
    << ReaperUid_deserialize(input),
       MapParsed(Quoted(input, "\""), StringDoubleQuote),
       MapParsed(Quoted(input, "'"), StringSingleQuote),
       parse_int(input),
       parse_float(input),
       parse_u_number(input),
       parse_unescaped_string(input) >>

\* The input starts with "{", hexadecimal digits and hyphens, "}": k is the
\* position of the closing brace.
IsUidToken(input, k) ==
    /\ k \in 2..Len(input) /\ input[1] = "{" /\ input[k] = "}"
    /\ \A i \in 2..(k - 1) : is_ascii_hexdigit(input[i]) \/ input[i] = "-"

\* The first k characters of the input are its first token, and the token is an
\* optional sign and digits.
IsIntToken(input, k) ==
    /\ k \in 1..Len(input)
    /\ k = Len(input) \/ is_whitespace(input[k + 1])
    /\ \A i \in 1..k : ~is_whitespace(input[i])
    /\ IF input[1] \in {"+", "-"}
       THEN k >= 2 /\ \A i \in 2..k : input[i] \in Digit
       ELSE \A i \in 1..k : input[i] \in Digit

\* C19: Attribute::deserialize returns what the first succeeding alternative of
\* Uid, double-quoted String, single-quoted String, Int, Float, UNumber, unquoted
\* String returns; a brace-wrapped token of hexadecimal digits and hyphens is a
\* Uid and a token that is an i64 is an Int, never a Float or a String.
C19_OrderedChoice ==
    ppc = "attribute" =>
        /\ \E n \in 1..7 :
               /\ Alternatives(text)[n].ok
               /\ \A m \in 1..(n - 1) : ~Alternatives(text)[m].ok
               /\ parsed[1] = Alternatives(text)[n]
        /\ \A k \in 1..Len(text) :
               /\ IsUidToken(text, k)
                      => /\ parsed[1].val = AttributeUid(SubSeq(text, 2, k - 1))
                         /\ parsed[1].rest = SubSeq(text, k + 1, Len(text))
               /\ IsIntToken(text, k)
                      => /\ parsed[1].val.kind = "Int"
                         /\ parsed[1].rest = SubSeq(text, k + 1, Len(text))

\* A token of digits was read as an Int although the Float and the unquoted
\* String alternatives accept it too.
C19_Witness ==
    /\ ppc = "attribute"
    /\ text = <<"0", "0", "7">>
    /\ parsed[1].val = AttributeInt(7)
    /\ parse_float(text).ok /\ parse_unescaped_string(text).ok


\* The input is one quoted string: the quote, characters other than it, the quote.
IsQuotedToken(input, quote) ==
    /\ Len(input) >= 2 /\ input[1] = quote /\ input[Len(input)] = quote
    /\ \A i \in 2..(Len(input) - 1) : input[i] # quote

\* The input is one U-number: an optional minus sign, digits, ":U".
IsUNumberToken(input) ==
    /\ Len(input) >= 3
    /\ input[Len(input) - 1] = ":" /\ input[Len(input)] = "U"
    /\ IF input[1] = "-"
       THEN Len(input) >= 4 /\ \A i \in 2..(Len(input) - 2) : input[i] \in Digit
       ELSE \A i \in 1..(Len(input) - 2) : input[i] \in Digit

\* The line of test_parse_auxrecv.
AuxrecvLine ==
    AUXRECV \o <<" ", "0", " ", "0", " ", "1", " ", "0", " ", "0", " ", "0",
                 " ", "0", " ", "0", " ", "0", " ", "-", "1", ":", "U",
                 " ", "0", " ", "-", "1", " ", "'", "'">>

\* C20: for every token that is a Uid, a single- or double-quoted string or a
\* U-number, serialize(deserialize(token)) is the token; -1:U is read as
\* UNumber(-1) and '' as String(SingleQuote("")), and Line::deserialize reads the
\* AUXRECV line to its end with these two values in it.
C20_ScalarRenderFidelity ==
    /\ (ppc = "attribute" /\ text = <<"-", "1", ":", "U">>)
           => parsed[1].val = AttributeUNumber(0 - 1) /\ parsed[1].rest = <<>>
    /\ (ppc = "attribute" /\ text = <<"'", "'">>)
           => parsed[1].val = StringSingleQuote(<<>>) /\ parsed[1].rest = <<>>
    /\ (/\ ppc = "attribute_serialized"
        /\ \/ IsUidToken(text, Len(text))
           \/ IsQuotedToken(text, "\"") \/ IsQuotedToken(text, "'")
           \/ IsUNumberToken(text))
           => output[1] = Ok(text)
    /\ (ppc = "line" /\ text = AuxrecvLine)
           => /\ parsed[1].ok /\ parsed[1].rest = <<>>
              /\ parsed[1].val.attribute = AUXRECV
              /\ Len(parsed[1].val.values) = 13
              /\ parsed[1].val.values[10] = AttributeUNumber(0 - 1)
              /\ parsed[1].val.values[13] = StringSingleQuote(<<>>)


(***************************************************************************)
(* The claims about the grammar and the serializer, checked under          *)
(* SpecParse.                                                              *)
(***************************************************************************)
\* C21: for every tree from_str produced, from_str of to_string of the tree
\* succeeds and gives a tree equal to it: same nodes, names, scalar variants and
\* values in the same order.
C21_SemanticInverse ==
    ppc = "reparsed" => reparsed[1] = Ok(parsed[1].val)


\* C22: every line terminator in the text to_string and serialize_to_string
\* produce is CR LF: the one after the header, the one after each child at every
\* depth and the final one, whatever terminators the input used.
C22_OutputLineEndings ==
    ppc \in {"serialized", "saved"} =>
        /\ output[1].ok
        /\ \A i \in 1..Len(output[1].val) :
               output[1].val[i] = LF => i > 1 /\ output[1].val[i - 1] = CR


\* The positions at which the lines of a text start.
LineStarts(t) == {1} \cup {i + 1 : i \in {j \in 1..(Len(t) - 1) : t[j] = LF}}

\* The number of spaces the line at position p starts with.
LeadingSpaces(t, p) ==
    Cardinality({k \in p..Len(t) : \A j \in p..k : t[j] = " "})

\* The line at position p has the character c after its leading spaces.
StartsWith(t, p, c) ==
    p + LeadingSpaces(t, p) <= Len(t) /\ t[p + LeadingSpaces(t, p)] = c

\* The number of objects open where the line at position p starts.
DepthAt(t, p) ==
    Cardinality({q \in LineStarts(t) : q < p /\ StartsWith(t, q, "<")})
        - Cardinality({q \in LineStarts(t) : q < p /\ StartsWith(t, q, ">")})

\* Every line of the document, up to the line that closes the root, starts with
\* exactly two spaces for each object open around it.
ExactlyIndented(t) ==
    \A p \in LineStarts(t) :
        (p = 1 \/ DepthAt(t, p) >= 1)
            => LeadingSpaces(t, p)
                   = INDENT_SPACES * (IF StartsWith(t, p, ">") THEN DepthAt(t, p) - 1
                                      ELSE DepthAt(t, p))

\* C23: the parser accepts a document only if every entry, object opener and
\* object closer at depth d is preceded by exactly 2*d spaces, and rejects the
\* whole document otherwise; the serializer writes exactly 2*d spaces before an
\* entry at depth d.
C23_ExactIndentation ==
    /\ (ppc = "parsed" /\ parsed[1].ok) => ExactlyIndented(text)
    /\ ppc = "serialized" => ExactlyIndented(output[1].val)

\* A document with a line at depth 2 was accepted and written out again.
C23_Witness ==
    /\ ppc = "serialized"
    /\ \E p \in LineStarts(text) : DepthAt(text, p) = 2 /\ ~StartsWith(text, p, ">")
    /\ \E p \in LineStarts(output[1].val) :
           /\ DepthAt(output[1].val, p) = 2
           /\ LeadingSpaces(output[1].val, p) = 4


\* C24: Line::deserialize gives one value for each non-empty token that exactly
\* one space precedes: a second space between two tokens or a space after the
\* last token is not taken as a separator, and no value of the parsed Line is
\* the empty text.
C24_LineGrammar ==
    (ppc = "line" /\ parsed[1].ok) =>
        /\ \A i \in 1..Len(parsed[1].val.values) :
               parsed[1].val.values[i] # StringUnquoted(<<>>)
        /\ text[Len(text) - Len(parsed[1].rest)] # " "


\* The entries the texts of EntryTexts stand for.
ExpectedEntries ==
    << EntryObject(NewObject(NewLine(TRACK, <<>>), <<>>)),
       EntryLine(NewLine(<<"V", "O", "L">>, <<FloatFinite(FALSE, 25, 2)>>)),
       EntryLine(NewLine(<<"A", "B">>, <<>>)),
       EntryAnonymousParameter(<<"Z", "X", "=">>) >>

\* C25: a child is read as an Object, else as a Line, else as an
\* AnonymousParameter, and its line terminator, CR LF or LF with the same tree for
\* both, follows it at once: with anything else between the end of the child and
\* the terminator the enclosing object is not accepted.
C25_EntryGrammar ==
    ppc = "parsed" =>
        \A nl \in Newlines : \A k \in 1..4 : \A trailer \in Trailers(k) :
            text = Document(<<"A">>, <<>>, <<EntryTexts(nl)[k] \o trailer>>, nl, <<CR, LF>>)
                => IF trailer = <<>>
                   THEN parsed[1] = Ok(NewObject(NewLine(<<"A">>, <<>>),
                                                 <<ExpectedEntries[k]>>))
                   ELSE ~parsed[1].ok


\* C26: when the first k characters of a text are a well-formed object at depth
\* 0, from_str of the text succeeds with that object, whatever follows, and
\* to_string of the result holds nothing of what followed.
C26_PrefixOnly ==
    ppc \in {"parsed", "serialized"} =>
        \A k \in 0..Len(text) :
            With(Object_deserialize(SubSeq(text, 1, k), 0), LAMBDA prefix :
                (prefix.ok /\ prefix.rest = <<>>)
                    => /\ parsed[1] = Ok(prefix.val)
                       /\ ppc = "serialized" => output[1] = to_string(prefix.val))

\* A document followed by a character that no grammar rule takes was accepted
\* and written out.
C26_Witness ==
    /\ ppc = "serialized"
    /\ text[Len(text)] = "x"
    /\ Object_deserialize(SubSeq(text, 1, Len(text) - 1), 0).rest = <<>>
    /\ parsed[1].ok /\ Len(parsed[1].val.values) = 2
    /\ output[1].val[Len(output[1].val)] = LF


(***************************************************************************)
(* Further claims about modify_tracks, checked under Spec.                 *)
(***************************************************************************)
\* C27: modify_tracks does not panic on a non-empty child sequence, whatever the
\* transform returns: the anchor computed before the extraction is at most the
\* number of children left after it, and every extracted entry converts to a
\* Track, one view for each TRACK child.
C27_NoPanic ==
    (last.op = "modify_tracks" /\ last.pre.values # <<>>) =>
        /\ ~last.panic
        /\ last.result = Ok(Unit)
        /\ last.anchor # None
        /\ last.anchor[1] <= Len(SelectSeq(last.pre.values, LAMBDA e : ~IsTrackChild(e)))
        /\ Len(last.arg) = Len(SelectSeq(last.pre.values, IsTrackChild))
        /\ \A i \in 1..Len(last.arg) :
               last.arg[i].ty = "Track" /\ last.arg[i].inner.header.attribute = TRACK

\* The anchor was the very end of what the extraction left, and views were
\* inserted there.
C27_Witness ==
    /\ last.op = "modify_tracks" /\ ~last.panic
    /\ last.anchor = Some(Len(SelectSeq(last.pre.values, LAMBDA e : ~IsTrackChild(e))))
    /\ last.anchor[1] > 0
    /\ Len(last.ret) >= 2


\* The children of a list that are not TRACK objects, in their order.
NonTrackChildren(values) == SelectSeq(values, LAMBDA e : ~IsTrackChild(e))

\* How often the element occurs in the sequence.
Occurrences(seq, x) == Cardinality({i \in 1..Len(seq) : seq[i] = x})

\* The two sequences hold the same elements, each as often.
SameMultiset(a, b) ==
    /\ Len(a) = Len(b)
    /\ \A i \in 1..Len(a) : Occurrences(a, a[i]) = Occurrences(b, a[i])

\* C28: every modify_tracks call on a non-empty project keeps the subsequence of
\* non-TRACK children, so that it stays the initial one over any sequence of
\* calls; the child count afterwards is the count before minus the extracted
\* tracks plus the returned views; a transform that returns a permutation of its
\* input keeps the multiset of children; and the identity transform applied a
\* second time changes nothing.
C28_SequenceOfCalls ==
    [][(last'.op = "modify_tracks" /\ project.inner.values # <<>>) =>
           /\ NonTrackChildren(project'.inner.values) = NonTrackChildren(project.inner.values)
           /\ Len(project'.inner.values)
                  = Len(project.inner.values) - Len(last'.arg) + Len(last'.ret)
           /\ SameMultiset(last'.ret, last'.arg)
                  => SameMultiset(project'.inner.values, project.inner.values)
           /\ (last.op = "modify_tracks" /\ last.modifier = "identity"
                   /\ last'.modifier = "identity")
                  => project' = project]_vars


(***************************************************************************)
(* Further claims about the accessors, checked under SpecView.             *)
(***************************************************************************)
\* The object children of an object that carry the given header name.
NamedObjects(object, header) ==
    {i \in 0..(Len(object.values) - 1) :
         /\ object.values[i + 1].tag = "Object"
         /\ object.values[i + 1].object.header.attribute = header}

\* C29: child_object_mut(name) returns Some(o) exactly when some direct child
\* object has the header name, and o is then the first such child in document
\* order, also when an object child with another name stands before it.
C29_FirstMatchOverObjects ==
    access.op = "child_object_mut" =>
        /\ (access.result[1] # None) <=> (NamedObjects(access.pre, access.closure) # {})
        /\ access.result[1] # None =>
               /\ access.result[1][1].index = Min(NamedObjects(access.pre, access.closure))
               /\ access.result[1][1].object
                      = access.pre.values[access.result[1][1].index + 1].object

\* The text name() is to give for a value: a string within its quote
\* characters, the number 5 as its digit.
QuotedText(value) ==
    CASE value.kind = "String" /\ value.quote = "DoubleQuote" -> <<"\"">> \o value.s \o <<"\"">>
      [] value.kind = "String" /\ value.quote = "SingleQuote" -> <<"'">> \o value.s \o <<"'">>
      [] value.kind = "String" /\ value.quote = "Unquoted" -> value.s
      [] value = [kind |-> "Int", v |-> 5] -> <<"5">>

\* The 1-based position of the first Line child named NAME, 0 without one.
FirstNameLine(object) ==
    IF \E i \in 1..Len(object.values) : IsNameLine(object, i)
    THEN Min({i \in 1..Len(object.values) : IsNameLine(object, i)})
    ELSE 0

\* C30: name() returns the inline serialization of the first value of the first
\* NAME line, whatever later NAME lines and further values on the line hold: a
\* quoted string with its quote characters, a number as its rendered text; a
\* first NAME line without a value gives the MissingAttribute error of a track
\* without a NAME line.
C30_NameRendering ==
    access.op = "name" =>
        IF FirstNameLine(access.pre) = 0
        THEN access.result[1] = Err(MissingAttribute(NAME))
        ELSE IF access.pre.values[FirstNameLine(access.pre)].line.values = <<>>
        THEN access.result[1] = Err(MissingAttribute(NAME))
        ELSE access.result[1]
                 = Ok(QuotedText(access.pre.values[FirstNameLine(access.pre)].line.values[1]))

\* name() was called on a track whose first NAME line holds a double-quoted
\* string and a second value, and returned the string within its quotes.
C30_Witness ==
    /\ access.op = "name"
    /\ FirstNameLine(access.pre) # 0
    /\ access.pre.values[FirstNameLine(access.pre)].line.values
           = <<StringDoubleQuote(<<"a">>), StringUnquoted(<<"b">>)>>
    /\ \E j \in (FirstNameLine(access.pre) + 1)..Len(access.pre.values) :
           IsNameLine(access.pre, j)
    /\ access.result[1] = Ok(<<"\"", "a", "\"">>)

====
